---- MODULE Spec2Model ----
(***************************************************************************)
(* Cross-tab state replication of cross-tab-state: the hooks               *)
(* useCrossTabState and useCrossTabReducer, the shared localStorage, the   *)
(* "storage" events it fires in the other tabs, and the BroadcastChannel   *)
(* "cross-tab-state".                                                      *)
(*                                                                         *)
(* A cell is one mounted hook instance.  Four implementations of a cell    *)
(* exist in the repository and each is modelled from its own code:         *)
(*   "value"   useCrossTabState             src/src/useCrossTabState.ts    *)
(*   "reducer" useCrossTabReducer           src/unnamed/part_003           *)
(*   "terse"   useCrossTabReducer           src/src/useCrossTabReducer.ts  *)
(*   "built"   useCrossTabReducer, built on the built useCrossTabState     *)
(*                                          src/unnamed/part_000           *)
(* All cells of one run use the same implementation (hook).                *)
(* React's state queue is modelled as it works: setState appends an update *)
(* to the cell's queue, and a render runs the queued updates in order,     *)
(* each updater on the result of the one before it.                        *)
(***************************************************************************)
EXTENDS Integers, Sequences, FiniteSets, TLC

\* ------------------------------------------------------------- bounds
NCells == 2
MaxWrites == 2
MaxPending == 2

CellIds == 1..NCells
\* Two tabs of one origin.
Contexts == {1, 2}
\* The tabs a cell may be mounted in.  Tabs are interchangeable, so the first
\* cell is put in tab 1.
CtxChoices(c) == IF c = 1 THEN {1} ELSE Contexts

Keys == {"a", "b"}
Kinds == {"value", "reducer", "terse", "built"}
\* The initialValue / initialState every test passes.
InitialValue == 0
\* The value found in the store when a tab starts on an earlier session's value.
StoredValue == 7

\* ------------------------------------------------------- JSON encoding
\* A text is a sequence of characters.
Digits == <<"0", "1", "2", "3", "4", "5", "6", "7", "8", "9">>

IsDigit(ch) == \E i \in 1..10 : Digits[i] = ch

DigitVal(ch) == (CHOOSE i \in 1..10 : Digits[i] = ch) - 1

RECURSIVE EncodeNat(_)
EncodeNat(n) ==
    IF n < 10 THEN <<Digits[n + 1]>>
    ELSE EncodeNat(n \div 10) \o <<Digits[(n % 10) + 1]>>

\* A faulty encoder that loses the sign.
JSONStringifyUnsigned(v) == IF v < 0 THEN EncodeNat(-v) ELSE EncodeNat(v)

\* JSON.stringify of an integer.
JSONStringify(v) == IF v < 0 THEN <<"-">> \o EncodeNat(-v) ELSE EncodeNat(v)

\* The JSON grammar of an unsigned integer: no empty text, no leading zero.
ValidNat(t) ==
    /\ Len(t) >= 1
    /\ \A i \in 1..Len(t) : IsDigit(t[i])
    /\ (Len(t) > 1 => t[1] # "0")

RECURSIVE ParseNat(_)
ParseNat(t) ==
    IF Len(t) = 1 THEN DigitVal(t[1])
    ELSE 10 * ParseNat(SubSeq(t, 1, Len(t) - 1)) + DigitVal(t[Len(t)])

\* JSON.parse: ok is FALSE where JSON.parse throws a SyntaxError.
JSONParse(t) ==
    IF ValidNat(t) THEN [ok |-> TRUE, val |-> ParseNat(t)]
    ELSE IF Len(t) >= 2 /\ t[1] = "-" /\ ValidNat(Tail(t))
         THEN [ok |-> TRUE, val |-> 0 - ParseNat(Tail(t))]
         ELSE [ok |-> FALSE, val |-> 0]

\* ------------------------------------------------------------ the store
\* What localStorage.getItem returns: null (present FALSE) or a string.
Absent == [present |-> FALSE, text |-> <<>>]
Entry(t) == [present |-> TRUE, text |-> t]
\* Entries other code of the origin may have left: the empty string and a
\* text that is not JSON.
EmptyText == <<>>
CorruptText == <<"{">>
InitEntries == {Absent, Entry(EmptyText), Entry(CorruptText),
                Entry(JSONStringify(StoredValue))}

\* JavaScript truthiness of (string | null): `saved ? ... : ...`, `&& e.newValue`.
Truthy(e) == e.present /\ e.text # <<>>

\* ---------------------------------------------------------------- state
VARIABLES
    store,       \* localStorage: key -> entry
    bcSupported, \* the browser has a BroadcastChannel constructor
    phase,       \* cell -> "absent" | "rendered" | "live" | "unmounted"
    hook,        \* the hook implementation the application's cells run
    ctx,         \* cell -> the tab it is mounted in
    key,         \* cell -> the key argument of the hook
    state,       \* cell -> the useState value of the last render
    pending,     \* cell -> the queue of setState updates not yet rendered
    channel,     \* cell -> channelRef.current: "null" | "open" | "closed"
    bcQ,         \* cell -> broadcast messages posted to its channel, in flight
    storageQ,    \* context -> "storage" events queued for its window
    warned,      \* cell -> the kinds of console.warn it has made
    fault,       \* cell -> an exception escaped one of its callbacks
    writes,      \* number of mutate/dispatch calls made so far
    log          \* history: the commits made, in order

vars == <<store, bcSupported, hook, phase, ctx, key, state, pending,
          channel, bcQ, storageQ, warned, fault, writes, log>>

\* A queued update: setState(value) from a remote handler, or the updater
\* function setState(prev => ...) of a local mutate/dispatch.  act is the
\* action a dispatch was called with ("none" elsewhere).
Remote(v) == [op |-> "remote", fn |-> "const", arg |-> v, act |-> "none"]
Local(f, a) == [op |-> "local", fn |-> f, arg |-> a, act |-> "none"]
Dispatched(f, a, action) == [op |-> "local", fn |-> f, arg |-> a, act |-> action]

HasChannel(kd) == kd \in {"value", "built"}
Mounted(c) == phase[c] \in {"rendered", "live"}
\* A faulty cleanup that leaves the "storage" listener registered.
ListeningAfterCleanup(c) == phase[c] \in {"live", "unmounted"}
\* The "storage" listener of cell c is registered: from the effect's
\* addEventListener to the cleanup's removeEventListener.
Listening(c) == phase[c] = "live"
\* A tab is open once a component using the hook has been rendered in it.
Open(x) == \E c \in CellIds : ctx[c] = x /\ phase[c] # "absent"

Init ==
    /\ \E e \in InitEntries : store = [k \in Keys |-> IF k = "a" THEN e ELSE Absent]
    /\ bcSupported = TRUE
    /\ hook \in Kinds
    /\ phase = [c \in CellIds |-> "absent"]
    /\ ctx = [c \in CellIds |-> 1]
    /\ key = [c \in CellIds |-> "a"]
    /\ state = [c \in CellIds |-> InitialValue]
    /\ pending = [c \in CellIds |-> <<>>]
    /\ channel = [c \in CellIds |-> "null"]
    /\ bcQ = [c \in CellIds |-> <<>>]
    /\ storageQ = [x \in Contexts |-> <<>>]
    /\ warned = [c \in CellIds |-> {}]
    /\ fault = [c \in CellIds |-> FALSE]
    /\ writes = 0
    /\ log = <<>>

\* ------------------------------------------------------------ updaters
\* A faulty reducer whose result depends on how many commits were made.
ReducerDrift(s, a) ==
    CASE a = "increment" -> s + 1 + Len(log)
      [] a = "decrement" -> s - 1
      [] OTHER -> s

\* The reducer of the tests: state {count: n} is modelled by n.
Reducer(s, a) ==
    CASE a = "increment" -> s + 1
      [] a = "decrement" -> s - 1
      [] OTHER -> s

Actions == {"increment", "decrement"}

\* What mutate is called with: the direct value of the tests, setCount(1),
\* and the function c => c + 1 of the tests and the example.
MutateArgs == {Local("const", 1), Local("inc", 0)}

\* typeof value === "function" ? value(prev) : value, and reducer(prev, action).
Apply(u, prev) ==
    CASE u.fn = "const" -> u.arg
      [] u.fn = "inc" -> prev + 1
      [] u.fn = "reduce" -> Reducer(prev, u.act)

\* ----------------------------------------------- effects of an updater
\* The effects of a render are threaded through an accumulator:
\*   st the running state value, store, storageQ, bcQ, warned (of the
\*   cell), fault (an exception left the updater), log.

\* A faulty setItem that stores the text short of its last character.
SetItemTruncated(x, k, v, acc) ==
    LET t == JSONStringify(v) IN
    [acc EXCEPT !.store = [acc.store EXCEPT
                              ![k] = Entry(SubSeq(t, 1, Len(t) - 1))]]

\* A faulty setItem that returns without writing the entry.
SetItemDropped(x, k, v, acc) == acc

\* A faulty setItem after which no "storage" event is fired.
SetItemSilent(x, k, v, acc) ==
    [acc EXCEPT !.store = [acc.store EXCEPT ![k] = Entry(JSONStringify(v))]]

\* localStorage.setItem(key, JSON.stringify(v)) from context x, when it does
\* not throw: the entry is replaced and, if it changed, a "storage" event is
\* queued for every other open tab.
SetItem(x, k, v, acc) ==
    LET new == Entry(JSONStringify(v)) IN
    [acc EXCEPT
        !.store = [acc.store EXCEPT ![k] = new],
        !.storageQ =
            IF acc.store[k] = new THEN acc.storageQ
            ELSE [y \in Contexts |->
                    IF y = x \/ ~Open(y) THEN acc.storageQ[y]
                    ELSE Append(acc.storageQ[y], [key |-> k, newValue |-> new])]]

\* A faulty postMessage that reaches no channel.
PostMessageNone(c, k, v, acc) == acc

\* A faulty postMessage that hands every message to the channel twice.
PostMessageTwice(c, k, v, acc) ==
    [acc EXCEPT
        !.bcQ = [d \in CellIds |->
                    IF d # c /\ channel[d] = "open"
                    THEN acc.bcQ[d] \o <<[key |-> k, value |-> v],
                                         [key |-> k, value |-> v]>>
                    ELSE acc.bcQ[d]]]

\* A faulty postMessage whose message overtakes the ones already in flight.
PostMessagePrepend(c, k, v, acc) ==
    [acc EXCEPT
        !.bcQ = [d \in CellIds |->
                    IF d # c /\ channel[d] = "open"
                    THEN <<[key |-> k, value |-> v]>> \o acc.bcQ[d]
                    ELSE acc.bcQ[d]]]

\* channel.postMessage({key, value}): queued for every other open channel of
\* the name "cross-tab-state", never for the posting channel.
PostMessage(c, k, v, acc) ==
    [acc EXCEPT
        !.bcQ = [d \in CellIds |->
                    IF d # c /\ channel[d] = "open"
                    THEN Append(acc.bcQ[d], [key |-> k, value |-> v])
                    ELSE acc.bcQ[d]]]

\* History: the commit of value v by cell c.
Logged(c, v, full, acc) ==
    [acc EXCEPT
        !.st = v,
        !.log = Append(acc.log,
                       [cell |-> c, key |-> key[c], val |-> v,
                        stored |-> ~full])]

\* A faulty updater that applies the update to the value of the last render,
\* as a closure over the rendered value would.
SetCrossTabStateStale(c, u, full, acc) ==
    LET newValue == Apply(u, state[c])
        a1 == IF full
              THEN [acc EXCEPT !.warned = @ \cup {"save"}]
              ELSE SetItem(ctx[c], key[c], newValue, acc)
        a2 == CASE channel[c] = "null" -> a1
                [] channel[c] = "closed" ->
                       [a1 EXCEPT !.warned = @ \cup {"broadcast"}]
                [] OTHER -> PostMessage(c, key[c], newValue, a1)
    IN Logged(c, newValue, full, a2)

\* A faulty updater that calls postMessage on the ref without the null test.
SetCrossTabStateNoGuard(c, u, full, acc) ==
    LET newValue == Apply(u, acc.st)
        a1 == IF full
              THEN [acc EXCEPT !.warned = @ \cup {"save"}]
              ELSE SetItem(ctx[c], key[c], newValue, acc)
    IN IF channel[c] = "open"
       THEN Logged(c, newValue, full, PostMessage(c, key[c], newValue, a1))
       ELSE Logged(c, newValue, full,
                   [a1 EXCEPT !.warned = @ \cup {"broadcast"}])

\* A faulty updater that gives the update up when setItem throws.
SetCrossTabStateAbort(c, u, full, acc) ==
    LET newValue == Apply(u, acc.st)
        a1 == SetItem(ctx[c], key[c], newValue, acc)
        a2 == CASE channel[c] = "null" -> a1
                [] channel[c] = "closed" ->
                       [a1 EXCEPT !.warned = @ \cup {"broadcast"}]
                [] OTHER -> PostMessage(c, key[c], newValue, a1)
    IN IF full THEN [acc EXCEPT !.warned = @ \cup {"save"}]
       ELSE Logged(c, newValue, full, a2)

\* The updater of setCrossTabState (useCrossTabState.ts): both effects are in
\* a try/catch that warns.
SetCrossTabState(c, u, full, acc) ==
    LET newValue == Apply(u, acc.st)
        a1 == IF full
              THEN [acc EXCEPT !.warned = @ \cup {"save"}]
              ELSE SetItem(ctx[c], key[c], newValue, acc)
        a2 == CASE channel[c] = "null" -> a1
                [] channel[c] = "closed" ->
                       [a1 EXCEPT !.warned = @ \cup {"broadcast"}]
                [] OTHER -> PostMessage(c, key[c], newValue, a1)
    IN Logged(c, newValue, full, a2)

\* The updater of dispatch (part_003): setItem in a try/catch, no broadcast.
ReducerDispatch(c, u, full, acc) ==
    LET newState == Apply(u, acc.st)
        a1 == IF full
              THEN [acc EXCEPT !.warned = @ \cup {"save"}]
              ELSE SetItem(ctx[c], key[c], newState, acc)
    IN Logged(c, newState, full, a1)

\* The updater of dispatch (src/useCrossTabReducer.ts): setItem outside any
\* try/catch, so its exception leaves the updater.
TerseDispatch(c, u, full, acc) ==
    LET newState == Apply(u, acc.st) IN
    IF full THEN [acc EXCEPT !.fault = TRUE]
    ELSE Logged(c, newState, full, SetItem(ctx[c], key[c], newState, acc))

\* The updater of the built setCrossTabState (part_000): neither effect is in
\* a try/catch.
BuiltSetCrossTabState(c, u, full, acc) ==
    LET newValue == Apply(u, acc.st) IN
    IF full \/ channel[c] = "closed" THEN [acc EXCEPT !.fault = TRUE]
    ELSE LET a1 == SetItem(ctx[c], key[c], newValue, acc)
             a2 == IF channel[c] = "null" THEN a1
                   ELSE PostMessage(c, key[c], newValue, a1)
         IN Logged(c, newValue, full, a2)

RunUpdater(c, u, full, acc) ==
    CASE hook = "value" -> SetCrossTabState(c, u, full, acc)
      [] hook = "reducer" -> ReducerDispatch(c, u, full, acc)
      [] hook = "terse" -> TerseDispatch(c, u, full, acc)
      [] hook = "built" -> BuiltSetCrossTabState(c, u, full, acc)

\* A faulty application that takes a received value only when it is larger
\* than the one held.
ApplyUpdateIfLarger(c, u, full, acc) ==
    IF u.op = "remote"
    THEN [acc EXCEPT !.st = IF u.arg > acc.st THEN u.arg ELSE acc.st]
    ELSE RunUpdater(c, u, full, acc)

\* A faulty application that publishes the value it received.
ApplyUpdateRepublish(c, u, full, acc) ==
    IF u.op = "remote"
    THEN PostMessage(c, key[c], u.arg, [acc EXCEPT !.st = u.arg])
    ELSE RunUpdater(c, u, full, acc)

\* A faulty application that commits a received value as a local write.
ApplyUpdateEcho(c, u, full, acc) ==
    RunUpdater(c, [u EXCEPT !.op = "local"], full, acc)

\* One queued update: setState(value) of onmessage / onStorage / handler
\* replaces the state and does nothing else; an updater function runs.
ApplyUpdate(c, u, full, acc) ==
    IF u.op = "remote" THEN [acc EXCEPT !.st = u.arg]
    ELSE RunUpdater(c, u, full, acc)

\* React runs the queued updates of a component in order, each on the state
\* the one before it returned; an exception ends the render.
RECURSIVE RunQueue(_, _, _, _)
RunQueue(c, q, full, acc) ==
    IF q = <<>> \/ acc.fault THEN acc
    ELSE RunQueue(c, Tail(q), full, ApplyUpdate(c, Head(q), full, acc))

\* --------------------------------------------------------- initializers
\* useState(() => { try { saved ? JSON.parse(saved) : initialValue } catch
\* { warn; initialValue } }) of useCrossTabState.ts.
ValueInitializer(saved) ==
    IF ~Truthy(saved) THEN [val |-> InitialValue, warn |-> FALSE, fault |-> FALSE]
    ELSE IF JSONParse(saved.text).ok
         THEN [val |-> JSONParse(saved.text).val, warn |-> FALSE, fault |-> FALSE]
         ELSE [val |-> InitialValue, warn |-> TRUE, fault |-> FALSE]

\* The same initializer in part_003.
ReducerInitializer(saved) ==
    IF ~Truthy(saved) THEN [val |-> InitialValue, warn |-> FALSE, fault |-> FALSE]
    ELSE IF JSONParse(saved.text).ok
         THEN [val |-> JSONParse(saved.text).val, warn |-> FALSE, fault |-> FALSE]
         ELSE [val |-> InitialValue, warn |-> TRUE, fault |-> FALSE]

\* src/useCrossTabReducer.ts: catch { return initialState }, no warning.
TerseInitializer(saved) ==
    IF ~Truthy(saved) THEN [val |-> InitialValue, warn |-> FALSE, fault |-> FALSE]
    ELSE IF JSONParse(saved.text).ok
         THEN [val |-> JSONParse(saved.text).val, warn |-> FALSE, fault |-> FALSE]
         ELSE [val |-> InitialValue, warn |-> FALSE, fault |-> FALSE]

\* part_000: no try/catch, the SyntaxError leaves the initializer.
BuiltInitializer(saved) ==
    IF ~Truthy(saved) THEN [val |-> InitialValue, warn |-> FALSE, fault |-> FALSE]
    ELSE IF JSONParse(saved.text).ok
         THEN [val |-> JSONParse(saved.text).val, warn |-> FALSE, fault |-> FALSE]
         ELSE [val |-> InitialValue, warn |-> FALSE, fault |-> TRUE]

Initializer(kd, saved) ==
    CASE kd = "value" -> ValueInitializer(saved)
      [] kd = "reducer" -> ReducerInitializer(saved)
      [] kd = "terse" -> TerseInitializer(saved)
      [] kd = "built" -> BuiltInitializer(saved)

\* -------------------------------------------------------------- actions
\* A faulty first render that writes the value it starts with back to the
\* store.
CreateWriteBack(c, x, k) ==
    /\ phase[c] = "absent"
    /\ LET r == Initializer(hook, store[k]) IN
       /\ phase' = [phase EXCEPT ![c] = IF r.fault THEN "unmounted" ELSE "rendered"]
       /\ state' = [state EXCEPT ![c] = r.val]
       /\ warned' = [warned EXCEPT ![c] = IF r.warn THEN @ \cup {"parse"} ELSE @]
       /\ fault' = [fault EXCEPT ![c] = r.fault]
       /\ store' = [store EXCEPT ![k] = Entry(JSONStringify(r.val))]
    /\ ctx' = [ctx EXCEPT ![c] = x]
    /\ key' = [key EXCEPT ![c] = k]
    /\ UNCHANGED <<bcSupported, hook, pending, channel, bcQ,
                   storageQ, writes, log>>

\* The first render of a hook instance: the useState initializer reads the
\* store.  An exception in it means the component never mounts.
Create(c, x, k) ==
    /\ phase[c] = "absent"
    /\ LET r == Initializer(hook, store[k]) IN
       /\ phase' = [phase EXCEPT ![c] = IF r.fault THEN "unmounted" ELSE "rendered"]
       /\ state' = [state EXCEPT ![c] = r.val]
       /\ warned' = [warned EXCEPT ![c] = IF r.warn THEN @ \cup {"parse"} ELSE @]
       /\ fault' = [fault EXCEPT ![c] = r.fault]
    /\ ctx' = [ctx EXCEPT ![c] = x]
    /\ key' = [key EXCEPT ![c] = k]
    /\ UNCHANGED <<store, bcSupported, hook, pending, channel, bcQ,
                   storageQ, writes, log>>

\* The useEffect of the hook: open the channel (value and built cells), set
\* onmessage, add the "storage" listener.  Where BroadcastChannel does not
\* exist the constructor call throws before the listener is added.
Subscribe(c) ==
    /\ phase[c] = "rendered"
    /\ IF HasChannel(hook) /\ ~bcSupported
       THEN /\ phase' = [phase EXCEPT ![c] = "unmounted"]
            /\ fault' = [fault EXCEPT ![c] = TRUE]
            /\ pending' = [pending EXCEPT ![c] = <<>>]
            /\ UNCHANGED channel
       ELSE /\ phase' = [phase EXCEPT ![c] = "live"]
            /\ channel' = [channel EXCEPT ![c] =
                              IF HasChannel(hook) THEN "open" ELSE "null"]
            /\ UNCHANGED <<fault, pending>>
    /\ UNCHANGED <<store, bcSupported, hook, ctx, key, state, bcQ,
                   storageQ, warned, writes, log>>

\* Unmount: the effect's cleanup closes the channel, which discards the
\* messages in flight to it, and removes the listener; React drops the updates
\* still queued for the component.  React runs a component's pending effects
\* before it unmounts it, so the component unmounted is a subscribed one.
Unmount(c) ==
    /\ phase[c] = "live"
    /\ phase' = [phase EXCEPT ![c] = "unmounted"]
    /\ channel' = [channel EXCEPT ![c] = IF @ = "open" THEN "closed" ELSE @]
    /\ pending' = [pending EXCEPT ![c] = <<>>]
    /\ bcQ' = [bcQ EXCEPT ![c] = <<>>]
    /\ UNCHANGED <<store, bcSupported, hook, ctx, key, state, storageQ, warned,
                   fault, writes, log>>

\* setCrossTabState(value): queues the updater.
Mutate(c, u) ==
    /\ Mounted(c)
    /\ hook = "value"
    /\ writes < MaxWrites
    /\ Len(pending[c]) < MaxPending
    /\ pending' = [pending EXCEPT ![c] = Append(@, u)]
    /\ writes' = writes + 1
    /\ UNCHANGED <<store, bcSupported, hook, phase, ctx, key, state,
                   channel, bcQ, storageQ, warned, fault, log>>

\* dispatch(action).  part_003 and src/useCrossTabReducer.ts queue
\* prev => reducer(prev, action); the built dispatch computes
\* reducer(state, action) from the state of the last render and queues the
\* result as a direct value.
Dispatch(c, a) ==
    /\ Mounted(c)
    /\ hook \in {"reducer", "terse", "built"}
    /\ writes < MaxWrites
    /\ Len(pending[c]) < MaxPending
    /\ pending' = [pending EXCEPT ![c] =
                      Append(@, IF hook = "built"
                                THEN Dispatched("const", Reducer(state[c], a), a)
                                ELSE Dispatched("reduce", 0, a))]
    /\ writes' = writes + 1
    /\ UNCHANGED <<store, bcSupported, hook, phase, ctx, key, state,
                   channel, bcQ, storageQ, warned, fault, log>>

\* A render of the component (only a mounted component has queued updates):
\* the queued updates run; full says whether localStorage.setItem throws
\* during it (quota exceeded, storage disabled).  An exception in an
\* updater unmounts the component, whose state is never committed.
Render(c, full) ==
    /\ pending[c] # <<>>
    /\ LET r == RunQueue(c, pending[c], full,
                         [st |-> state[c], store |-> store,
                          storageQ |-> storageQ, bcQ |-> bcQ,
                          warned |-> warned[c], fault |-> FALSE, log |-> log])
       IN /\ store' = r.store
          /\ storageQ' = r.storageQ
          /\ bcQ' = [r.bcQ EXCEPT ![c] = IF r.fault THEN <<>> ELSE @]
          /\ log' = r.log
          /\ warned' = [warned EXCEPT ![c] = r.warned]
          /\ fault' = [fault EXCEPT ![c] = @ \/ r.fault]
          /\ state' = [state EXCEPT ![c] = IF r.fault THEN @ ELSE r.st]
          /\ phase' = [phase EXCEPT ![c] = IF r.fault THEN "unmounted" ELSE @]
          /\ channel' = [channel EXCEPT ![c] =
                            IF r.fault /\ @ = "open" THEN "closed" ELSE @]
    /\ pending' = [pending EXCEPT ![c] = <<>>]
    /\ UNCHANGED <<bcSupported, hook, ctx, key, writes>>

\* A faulty onmessage that takes the messages of every key.
OnMessageAnyKey(c, m, q) == Append(q, Remote(m.value))

\* A faulty onmessage that drops the messages of its own key.
OnMessageDeaf(c, m, q) == q

\* channel.onmessage of cell c for message m.
OnMessage(c, m, q) ==
    IF m.key = key[c] THEN Append(q, Remote(m.value)) ELSE q

\* A broadcast message reaches the channel of cell c; a closed channel
\* receives nothing.
DeliverBroadcast(c) ==
    /\ bcQ[c] # <<>>
    /\ Len(pending[c]) < MaxPending
    /\ bcQ' = [bcQ EXCEPT ![c] = Tail(@)]
    /\ pending' = [pending EXCEPT ![c] =
                      IF channel[c] = "open" THEN OnMessage(c, Head(bcQ[c]), @)
                      ELSE @]
    /\ UNCHANGED <<store, bcSupported, hook, phase, ctx, key, state,
                   channel, storageQ, warned, fault, writes, log>>

\* A variant of the storage listener that takes an event without a new value
\* as a reset to the initial value.
OnStorageReset(c, e, q) ==
    IF e.key = key[c]
    THEN IF ~Truthy(e.newValue)
         THEN [q |-> Append(q, Remote(InitialValue)),
               warn |-> FALSE, fault |-> FALSE]
         ELSE IF JSONParse(e.newValue.text).ok
              THEN [q |-> Append(q, Remote(JSONParse(e.newValue.text).val)),
                    warn |-> FALSE, fault |-> FALSE]
              ELSE [q |-> q, warn |-> TRUE, fault |-> FALSE]
    ELSE [q |-> q, warn |-> FALSE, fault |-> FALSE]

\* A variant of the storage listener that does not compare the event's key
\* with the cell's key.
OnStorageAnyKey(c, e, q) ==
    IF Truthy(e.newValue) /\ JSONParse(e.newValue.text).ok
    THEN [q |-> Append(q, Remote(JSONParse(e.newValue.text).val)),
          warn |-> FALSE, fault |-> FALSE]
    ELSE [q |-> q, warn |-> FALSE, fault |-> FALSE]

\* onStorage / handler of cell c for event e: [q, warn, fault] after it.
OnStorage(c, e, q) ==
    IF e.key = key[c] /\ Truthy(e.newValue)
    THEN IF JSONParse(e.newValue.text).ok
         THEN [q |-> Append(q, Remote(JSONParse(e.newValue.text).val)),
               warn |-> FALSE, fault |-> FALSE]
         ELSE IF hook \in {"value", "reducer"}
              THEN [q |-> q, warn |-> TRUE, fault |-> FALSE]
              ELSE [q |-> q, warn |-> FALSE, fault |-> TRUE]
    ELSE [q |-> q, warn |-> FALSE, fault |-> FALSE]

\* A "storage" event is fired at the window of context x: every listener
\* registered there runs.
DeliverStorage(x) ==
    /\ storageQ[x] # <<>>
    /\ \A c \in CellIds : ctx[c] = x => Len(pending[c]) < MaxPending
    /\ storageQ' = [storageQ EXCEPT ![x] = Tail(@)]
    /\ LET e == Head(storageQ[x])
           Hears(c) == ctx[c] = x /\ Listening(c)
       IN /\ pending' = [c \in CellIds |->
                IF Hears(c) THEN OnStorage(c, e, pending[c]).q ELSE pending[c]]
          /\ warned' = [c \in CellIds |->
                IF Hears(c) /\ OnStorage(c, e, pending[c]).warn
                THEN warned[c] \cup {"parseEvent"} ELSE warned[c]]
          /\ fault' = [c \in CellIds |->
                fault[c] \/ (Hears(c) /\ OnStorage(c, e, pending[c]).fault)]
    /\ UNCHANGED <<store, bcSupported, hook, phase, ctx, key, state,
                   channel, bcQ, writes, log>>

Next ==
    \/ \E c \in CellIds, k \in Keys : \E x \in CtxChoices(c) : Create(c, x, k)
    \/ \E c \in CellIds : Subscribe(c)
    \/ \E c \in CellIds : Unmount(c)
    \/ \E c \in CellIds, u \in MutateArgs : Mutate(c, u)
    \/ \E c \in CellIds, a \in Actions : Dispatch(c, a)
    \/ \E c \in CellIds, full \in BOOLEAN : Render(c, full)
    \/ \E c \in CellIds : DeliverBroadcast(c)
    \/ \E x \in Contexts : DeliverStorage(x)

Spec == Init /\ [][Next]_vars

\* ------------------------------------------------- a running application
\* The application after start-up: every cell was rendered from the same
\* store and has run its effect, nothing has been written yet.
InitLive ==
    /\ \E e \in InitEntries : store = [k \in Keys |-> IF k = "a" THEN e ELSE Absent]
    /\ bcSupported = TRUE
    /\ hook \in Kinds
    /\ phase = [c \in CellIds |-> "live"]
    /\ ctx \in [CellIds -> Contexts]
    /\ \A c \in CellIds : ctx[c] \in CtxChoices(c)
    /\ key \in [CellIds -> Keys]
    /\ \A c \in CellIds : ~Initializer(hook, store[key[c]]).fault
    /\ state = [c \in CellIds |-> Initializer(hook, store[key[c]]).val]
    /\ pending = [c \in CellIds |-> <<>>]
    /\ channel = [c \in CellIds |-> IF HasChannel(hook) THEN "open" ELSE "null"]
    /\ bcQ = [c \in CellIds |-> <<>>]
    /\ storageQ = [x \in Contexts |-> <<>>]
    /\ warned = [c \in CellIds |->
                    IF Initializer(hook, store[key[c]]).warn THEN {"parse"} ELSE {}]
    /\ fault = [c \in CellIds |-> FALSE]
    /\ writes = 0
    /\ log = <<>>

NextLive ==
    \/ \E c \in CellIds : Unmount(c)
    \/ \E c \in CellIds, u \in MutateArgs : Mutate(c, u)
    \/ \E c \in CellIds, a \in Actions : Dispatch(c, a)
    \/ \E c \in CellIds, full \in BOOLEAN : Render(c, full)
    \/ \E c \in CellIds : DeliverBroadcast(c)
    \/ \E x \in Contexts : DeliverStorage(x)

SpecLive == InitLive /\ [][NextLive]_vars

\* =============================================================== claims
\* Steps and states the claims speak of.

\* Nothing is in flight to cell c and it has rendered all it received.
BroadcastDelivered(c) == bcQ[c] = <<>> /\ pending[c] = <<>>
StorageDelivered(c) == storageQ[ctx[c]] = <<>> /\ pending[c] = <<>>

\* ---------------------------------------------------------------- C1
\* a committed the only write so far; b is a live value cell of the same key
\* in another tab.
C1_Case(a, b) ==
    /\ hook = "value"
    /\ Len(log) = 1
    /\ log[1].cell = a
    /\ b # a
    /\ key[b] = key[a]
    /\ ctx[b] # ctx[a]
    /\ phase[b] = "live"
    /\ \/ BroadcastDelivered(b)
       \/ log[1].stored /\ StorageDelivered(b)

\* C1: two live value cells of one key in different tabs start from the same
\* value; after one mutate in tab A, once A's broadcast message or A's
\* storage event has been delivered to B and rendered, B reads the value A
\* committed.
C1_CrossContextConvergence ==
    \A a, b \in CellIds : C1_Case(a, b) => state[b] = log[1].val

\* A and B started equal, A has committed a different value, and B holds it.
C1_Witness ==
    \E a, b \in CellIds :
        /\ C1_Case(a, b)
        /\ state[b] = log[1].val
        /\ state[a] = log[1].val
        /\ log[1].val # Initializer(hook, store[key[b]]).val
        /\ BroadcastDelivered(b) /\ StorageDelivered(b)

\* ---------------------------------------------------------------- C2
\* The commits on key k, oldest first.
CommitsOn(k) == SelectSeq(log, LAMBDA e : e.key = k)
LastCommit(k) == CommitsOn(k)[Len(CommitsOn(k))]

\* Every message and storage event has been delivered and rendered, and no
\* update is waiting.
Quiescent ==
    /\ \A c \in CellIds : bcQ[c] = <<>> /\ pending[c] = <<>>
    /\ \A x \in Contexts : storageQ[x] = <<>>

\* Every live cell of key k holds the last value committed on k.
Converged(k) ==
    \A c \in CellIds :
        phase[c] = "live" /\ key[c] = k => state[c] = LastCommit(k).val

\* The statement as the specification words it: whatever cells wrote, at
\* rest every live value cell holds the last committed value.  Two cells
\* that commit before either hears of the other swap their values.
C2_AnyWriters ==
    \A k \in Keys :
        /\ hook = "value"
        /\ CommitsOn(k) # <<>>
        /\ \A i \in 1..Len(CommitsOn(k)) : CommitsOn(k)[i].stored
        /\ Quiescent
        => Converged(k)

\* All commits on k are one cell's, and the last of them reached the store.
C2_Case(k) ==
    /\ hook = "value"
    /\ CommitsOn(k) # <<>>
    /\ \A i \in 1..Len(CommitsOn(k)) :
           CommitsOn(k)[i].cell = CommitsOn(k)[1].cell
    /\ LastCommit(k).stored
    /\ Quiescent

\* C2: after any finite sequence of mutate calls on one key issued by one
\* value cell, the last of which was stored, once every broadcast message and
\* storage event has been delivered and rendered, every live value cell of
\* the key holds the last committed value, and the store holds its encoding.
C2_EventualConsistency ==
    \A k \in Keys :
        C2_Case(k) =>
            /\ Converged(k)
            /\ store[k] = Entry(JSONStringify(LastCommit(k).val))

\* One cell committed two different values on a key, a sibling is live on
\* that key, and all is at rest.
C2_Witness ==
    \E k \in Keys, b \in CellIds :
        /\ C2_Case(k)
        /\ Len(CommitsOn(k)) = 2
        /\ CommitsOn(k)[1].val # CommitsOn(k)[2].val
        /\ b # LastCommit(k).cell
        /\ phase[b] = "live" /\ key[b] = k
        /\ state[b] = LastCommit(k).val

\* ------------------------------------------------------- render steps
\* The value a queue of updates leaves, each applied to the value the one
\* before it left.
RECURSIVE Replay(_, _)
Replay(q, s) ==
    IF q = <<>> THEN s
    ELSE Replay(Tail(q), IF Head(q).op = "remote" THEN Head(q).arg
                         ELSE Apply(Head(q), s))

\* The messages the local updates of a queue publish for key k.
RECURSIVE Published(_, _, _)
Published(q, s, k) ==
    IF q = <<>> THEN <<>>
    ELSE IF Head(q).op = "remote" THEN Published(Tail(q), Head(q).arg, k)
    ELSE <<[key |-> k, value |-> Apply(Head(q), s)]>>
             \o Published(Tail(q), Apply(Head(q), s), k)

AllLocal(q) == \A i \in 1..Len(q) : q[i].op = "local"
AllRemote(q) == \A i \in 1..Len(q) : q[i].op = "remote"

\* ---------------------------------------------------------------- C3
\* C3: a render that runs one local mutate or dispatch, with no remote update
\* queued beside it, leaves the cell reading the committed value, whatever
\* the store and the siblings do.
C3_LocalRoundTrip ==
    [][\A c \in CellIds, full \in BOOLEAN :
          Render(c, full) /\ Len(pending[c]) = 1 /\ AllLocal(pending[c])
          => /\ state'[c] = Apply(pending[c][1], state[c])
             /\ phase'[c] = phase[c]]_vars

\* A reducer cell whose dispatch threw out of its updater: it is unmounted
\* with a fault and nothing was committed.
C3_Witness ==
    \E c \in CellIds :
        /\ hook = "terse"
        /\ fault[c] /\ phase[c] = "unmounted"
        /\ writes = 1 /\ log = <<>>

\* ---------------------------------------------------------------- C4
\* C4: a render of a value cell applies each queued mutate to the value the
\* update before it left (a local commit or a remote application), so n
\* queued c => c + 1 leave the value n higher.
C4_FunctionalUpdateFreshness ==
    [][\A c \in CellIds, full \in BOOLEAN :
          Render(c, full) /\ hook = "value"
          => /\ state'[c] = Replay(pending[c], state[c])
             /\ (\A i \in 1..Len(pending[c]) :
                    pending[c][i] = Local("inc", 0))
                => state'[c] = state[c] + Len(pending[c])]_vars

\* A value cell has committed two c => c + 1 in a row and reads the second.
C4_Witness ==
    \E c \in CellIds :
        /\ hook = "value"
        /\ Len(log) = 2
        /\ log[1].cell = c /\ log[2].cell = c
        /\ log[1].val \in {InitialValue + 1, StoredValue + 1}
        /\ log[2].val = log[1].val + 1
        /\ state[c] = log[2].val
        /\ pending[c] = <<>>

\* ---------------------------------------------------------------- C5
\* C5: a render of a reducer cell that runs two dispatches queued back to
\* back, the store accepting both writes, leaves
\* reducer(reducer(s0, a1), a2).
C5_DispatchFreshness ==
    [][\A c \in CellIds :
          /\ Render(c, FALSE)
          /\ hook \in {"reducer", "terse", "built"}
          /\ Len(pending[c]) = 2 /\ AllLocal(pending[c])
          => state'[c] = Reducer(Reducer(state[c], pending[c][1].act),
                                 pending[c][2].act)]_vars

\* A built reducer cell has committed two increments and reads one.
C5_Witness ==
    \E c \in CellIds :
        /\ hook = "built"
        /\ Len(log) = 2
        /\ log[1].cell = c /\ log[2].cell = c
        /\ log[1].val = log[2].val
        /\ state[c] = log[1].val
        /\ writes = 2 /\ pending[c] = <<>>

\* ---------------------------------------------------------------- C6
\* The entry holds a text that JSON.parse rejects.
Undecodable(e) == Truthy(e) /\ ~JSONParse(e.text).ok

\* C6: a value or reducer cell created over an undecodable entry starts with
\* its initial value, reports the failure, raises no fault and leaves the
\* entry as it was.
C6_DecodeFailureAtCreation ==
    [][\A c \in CellIds, x \in Contexts, k \in Keys :
          /\ Create(c, x, k)
          /\ hook \in {"value", "reducer", "terse"}
          /\ Undecodable(store[k])
          => /\ state'[c] = InitialValue
             /\ "parse" \in warned'[c]
             /\ ~fault'[c]
             /\ phase'[c] = "rendered"
             /\ store' = store]_vars

\* A reducer cell of src/useCrossTabReducer.ts was created over an
\* undecodable entry and nothing was reported.
C6_Witness ==
    \E c \in CellIds :
        /\ hook = "terse"
        /\ phase[c] = "rendered"
        /\ Undecodable(store[key[c]])
        /\ state[c] = InitialValue
        /\ warned[c] = {}

\* ---------------------------------------------------------------- C7
\* The values cell c can have come to hold: the initial value, the value
\* the store started with under its key, the values committed on its key.
OwnValues(c) ==
    {InitialValue}
        \cup {JSONParse(e.text).val :
                 e \in {i \in InitEntries :
                          /\ Truthy(i) /\ JSONParse(i.text).ok
                          /\ key[c] = "a"}}
        \cup {CommitsOn(key[c])[i].val : i \in 1..Len(CommitsOn(key[c]))}

\* C7: a broadcast message or a storage event of another key leaves a cell's
\* queued updates and its value as they were, and a cell never holds a value
\* committed on another key only.
C7_KeyIsolation ==
    [][/\ \A c \in CellIds :
            DeliverBroadcast(c) /\ Head(bcQ[c]).key # key[c]
            => pending'[c] = pending[c] /\ state'[c] = state[c]
       /\ \A x \in Contexts, c \in CellIds :
            DeliverStorage(x) /\ Head(storageQ[x]).key # key[c]
            => /\ pending'[c] = pending[c] /\ state'[c] = state[c]
               /\ warned'[c] = warned[c] /\ fault'[c] = fault[c]
       /\ \A c \in CellIds : state'[c] \in OwnValues(c)']_vars

\* Two live value cells of different keys in different tabs: d's commit was
\* stored and published, all of it has been delivered to c and rendered,
\* and c does not hold the value.
C7_Witness ==
    \E c, d \in CellIds :
        /\ hook = "value"
        /\ key[c] # key[d] /\ ctx[c] # ctx[d]
        /\ phase[c] = "live" /\ phase[d] = "live"
        /\ Len(log) >= 1
        /\ \A i \in 1..Len(log) : log[i].cell = d /\ log[i].stored
        /\ bcQ[c] = <<>> /\ storageQ[ctx[c]] = <<>> /\ pending[c] = <<>>
        /\ state[c] # state[d]
        /\ state[c] = InitialValue

\* ---------------------------------------------------------------- C8
\* C8: once a cell is unmounted no step changes its value or queues an
\* update for it, whatever is still in flight.
C8_TeardownStopsDelivery ==
    [][\A c \in CellIds :
          phase[c] = "unmounted"
          => state'[c] = state[c] /\ pending'[c] = <<>>]_vars

\* A cell was unmounted while a storage event of its key, carrying a value
\* it does not hold, was on its way to its tab.
C8_Witness ==
    \E c \in CellIds :
        /\ phase[c] = "unmounted" /\ ~fault[c]
        /\ channel[c] = "closed"
        /\ storageQ[ctx[c]] # <<>>
        /\ Head(storageQ[ctx[c]]).key = key[c]
        /\ JSONParse(Head(storageQ[ctx[c]]).newValue.text).val # state[c]

\* ---------------------------------------------------------------- C9
\* C9: a render whose queued updates are all the same received value, one
\* delivery of it or two, leaves the cell at that value and the store, the
\* queues in flight, the reports and the history as they were.
C9_IdempotentRemoteApplication ==
    [][\A c \in CellIds, full \in BOOLEAN :
          /\ Render(c, full)
          /\ AllRemote(pending[c])
          /\ \A i \in 1..Len(pending[c]) : pending[c][i] = pending[c][1]
          => /\ state'[c] = pending[c][1].arg
             /\ UNCHANGED <<store, bcQ, storageQ, warned, fault, log>>]_vars

\* A cell that wrote nothing holds a received value neither it nor the store
\* started with, and the same value is queued for it once more.
C9_Witness ==
    \E c \in CellIds :
        /\ \A i \in 1..Len(log) : log[i].cell # c
        /\ phase[c] = "live"
        /\ state[c] \notin {InitialValue, StoredValue}
        /\ pending[c] = <<Remote(state[c])>>
        /\ store[key[c]] = Entry(JSONStringify(state[c]))

\* --------------------------------------------------------------- C10
\* C10: a render of a value cell during which setItem throws still leaves
\* the cell at the new value and publishes every local update to the open
\* channels of its siblings; the store and the storage events are as they
\* were, the failure is reported and no fault is raised.
C10_PersistenceFailureOnMutate ==
    [][\A c \in CellIds :
          /\ Render(c, TRUE)
          /\ hook = "value"
          /\ ~AllRemote(pending[c])
          => /\ state'[c] = Replay(pending[c], state[c])
             /\ store' = store /\ storageQ' = storageQ
             /\ "save" \in warned'[c]
             /\ ~fault'[c] /\ phase'[c] = phase[c]
             /\ \A d \in CellIds \ {c} :
                   channel[c] = "open" /\ channel[d] = "open"
                   => bcQ'[d] = bcQ[d]
                         \o Published(pending[c], state[c], key[c])]_vars

\* The store rejected the last write of a value cell: the cell holds the
\* value, the store does not, the failure was reported and the message is
\* on its way to a live sibling of the key.
C10_Witness ==
    \E c, d \in CellIds :
        /\ hook = "value"
        /\ log # <<>>
        /\ log[Len(log)].cell = c /\ ~log[Len(log)].stored
        /\ state[c] = log[Len(log)].val
        /\ store[key[c]] # Entry(JSONStringify(state[c]))
        /\ "save" \in warned[c] /\ ~fault[c] /\ Mounted(c)
        /\ d # c /\ phase[d] = "live" /\ key[d] = key[c]
        /\ bcQ[d] # <<>>
        /\ bcQ[d][Len(bcQ[d])] = [key |-> key[c], value |-> state[c]]

\* --------------------------------------------------------------- C11
\* C11: a render of a reducer cell during which setItem throws still leaves
\* the cell at reducer(prev, action) for every queued dispatch; the failure
\* is reported, the store is as it was and no fault is raised.
C11_PersistenceFailureOnDispatch ==
    [][\A c \in CellIds :
          /\ Render(c, TRUE)
          /\ hook \in {"reducer", "terse"}
          /\ ~AllRemote(pending[c])
          => /\ state'[c] = Replay(pending[c], state[c])
             /\ "save" \in warned'[c]
             /\ store' = store
             /\ ~fault'[c] /\ phase'[c] = phase[c]]_vars

\* A live reducer cell of src/useCrossTabReducer.ts lost a dispatch to the
\* exception of setItem: it holds the value it started with, it is unmounted
\* with a fault and nothing was reported.
C11_Witness ==
    \E c \in CellIds :
        /\ hook = "terse"
        /\ fault[c] /\ phase[c] = "unmounted"
        /\ writes >= 1 /\ log = <<>>
        /\ state[c] = Initializer(hook, store[key[c]]).val
        /\ "save" \notin warned[c]
        /\ storageQ = [x \in Contexts |-> <<>>]

\* ------------------------------------ a platform without BroadcastChannel
\* The same program where the global BroadcastChannel is not defined: no
\* channel is ever open, so no message is ever in flight.
InitNoBroadcast ==
    /\ \E e \in InitEntries : store = [k \in Keys |-> IF k = "a" THEN e ELSE Absent]
    /\ bcSupported = FALSE
    /\ hook \in Kinds
    /\ phase = [c \in CellIds |-> "absent"]
    /\ ctx = [c \in CellIds |-> 1]
    /\ key = [c \in CellIds |-> "a"]
    /\ state = [c \in CellIds |-> InitialValue]
    /\ pending = [c \in CellIds |-> <<>>]
    /\ channel = [c \in CellIds |-> "null"]
    /\ bcQ = [c \in CellIds |-> <<>>]
    /\ storageQ = [x \in Contexts |-> <<>>]
    /\ warned = [c \in CellIds |-> {}]
    /\ fault = [c \in CellIds |-> FALSE]
    /\ writes = 0
    /\ log = <<>>

NextNoBroadcast ==
    \/ \E c \in CellIds, k \in Keys : \E x \in CtxChoices(c) : Create(c, x, k)
    \/ \E c \in CellIds : Subscribe(c)
    \/ \E c \in CellIds : Unmount(c)
    \/ \E c \in CellIds, u \in MutateArgs : Mutate(c, u)
    \/ \E c \in CellIds, a \in Actions : Dispatch(c, a)
    \/ \E c \in CellIds, full \in BOOLEAN : Render(c, full)
    \/ \E x \in Contexts : DeliverStorage(x)

SpecNoBroadcast == InitNoBroadcast /\ [][NextNoBroadcast]_vars

\* --------------------------------------------------------------- C12
\* C12: where BroadcastChannel cannot be constructed, the effect of a value
\* cell still registers the storage listener and raises no fault, and a
\* render of its mutate commits to memory and, the store accepting, to the
\* store.
C12_BroadcastUnavailable ==
    [][\A c \in CellIds :
          hook = "value" /\ ~bcSupported
          => /\ Subscribe(c)
                => Listening(c)' /\ ~fault'[c] /\ channel'[c] = "null"
             /\ Render(c, FALSE) /\ ~AllRemote(pending[c])
                => /\ state'[c] = Replay(pending[c], state[c])
                   /\ store'[key[c]] = Entry(JSONStringify(state'[c]))
                   /\ ~fault'[c]]_vars

\* The effect of a value cell threw at new BroadcastChannel: the cell is
\* unmounted with a fault, and a storage event of its key waits in its tab
\* with no listener to take it.
C12_Witness ==
    \E c \in CellIds :
        /\ hook = "value" /\ ~bcSupported
        /\ fault[c] /\ phase[c] = "unmounted" /\ channel[c] = "null"
        /\ storageQ[ctx[c]] # <<>>
        /\ Head(storageQ[ctx[c]]).key = key[c]
        /\ \A d \in CellIds : ctx[d] = ctx[c] => ~Listening(d)

\* ------------------------------------------- other code of the origin
\* localStorage is shared with every script of the origin.  Some other code
\* running in tab x stores a text that is not JSON under key k: the entry is
\* replaced and a "storage" event is queued for every other open tab.
ForeignSetItem(x, k) ==
    /\ writes < MaxWrites
    /\ store[k] # Entry(CorruptText)
    /\ store' = [store EXCEPT ![k] = Entry(CorruptText)]
    /\ storageQ' = [y \in Contexts |->
                       IF y = x \/ ~Open(y) THEN storageQ[y]
                       ELSE Append(storageQ[y],
                                   [key |-> k, newValue |-> Entry(CorruptText)])]
    /\ writes' = writes + 1
    /\ UNCHANGED <<bcSupported, hook, phase, ctx, key, state, pending,
                   channel, bcQ, warned, fault, log>>

NextShared ==
    \/ NextLive
    \/ \E x \in Contexts, k \in Keys : ForeignSetItem(x, k)

\* The running application beside other code that writes the store.
SpecShared == InitLive /\ [][NextShared]_vars

\* --------------------------------------------------------------- C13
\* C13: a storage event of the cell's key whose text cannot be decoded
\* leaves the value and the queued updates of a listening value or reducer
\* cell as they were, touches no store entry and raises no fault; a valid
\* event still queues its value afterwards.
C13_DecodeFailureOnStorageEvent ==
    [][\A x \in Contexts, c \in CellIds :
          /\ DeliverStorage(x)
          /\ hook \in {"value", "reducer", "terse"}
          /\ ctx[c] = x /\ Listening(c)
          /\ Head(storageQ[x]).key = key[c]
          => IF Undecodable(Head(storageQ[x]).newValue)
             THEN /\ state'[c] = state[c] /\ pending'[c] = pending[c]
                  /\ store' = store
                  /\ fault'[c] = fault[c]
             ELSE pending'[c] =
                      Append(pending[c],
                             Remote(JSONParse(Head(storageQ[x]).newValue.text).val))
       ]_vars

\* The handler of a live reducer cell of src/useCrossTabReducer.ts threw on
\* an undecodable event: a fault was raised and nothing was reported.
C13_Witness ==
    \E c \in CellIds :
        /\ hook = "terse"
        /\ phase[c] = "live" /\ fault[c]
        /\ "parseEvent" \notin warned[c]
        /\ store[key[c]] = Entry(CorruptText)
        /\ storageQ[ctx[c]] = <<>>

\* --------------------------------------------------------------- C14
ReducerKinds == {"reducer", "terse", "built"}

\* a committed and stored the only dispatch so far; b is a live reducer cell
\* of the same key in another tab, the storage events of its tab are
\* delivered and rendered.
C14_Case(a, b) ==
    /\ hook \in ReducerKinds
    /\ Len(log) = 1
    /\ log[1].cell = a /\ log[1].stored
    /\ b # a
    /\ key[b] = key[a]
    /\ ctx[b] # ctx[a]
    /\ phase[b] = "live"
    /\ StorageDelivered(b)

\* C14: the first dispatch(action) of a reducer cell, the store accepting the
\* write, commits reducer(previous state, action); once the storage event
\* is delivered to a live reducer cell of the key in another tab and
\* rendered, that cell holds the same state.
C14_ReducerConvergence ==
    [][/\ \A a \in CellIds :
            /\ Render(a, FALSE)
            /\ hook \in ReducerKinds
            /\ log = <<>>
            /\ Len(pending[a]) = 1 /\ AllLocal(pending[a])
            => log' = <<[cell |-> a, key |-> key[a],
                         val |-> Reducer(state[a], pending[a][1].act),
                         stored |-> TRUE]>>
       /\ \A a, b \in CellIds : C14_Case(a, b)' => state'[b] = log'[1].val
      ]_vars

\* A reducer cell of part_003, which has no channel, holds what a reducer
\* cell of another tab committed.
C14_Witness ==
    \E a, b \in CellIds :
        /\ C14_Case(a, b)
        /\ hook = "reducer"
        /\ channel[b] = "null"
        /\ state[b] = log[1].val /\ state[a] = log[1].val
        /\ store[key[b]] = Entry(JSONStringify(state[b]))

\* --------------------------------------------------------------- C15
\* C15: a reducer cell has no broadcast channel and no message is ever in
\* flight to one; a render of its dispatches changes nothing but its state,
\* the store and the storage events the write fires.
C15_ReducerNoBroadcast ==
    [][/\ hook \in ReducerKinds
          => \A c \in CellIds : channel'[c] = "null" /\ bcQ'[c] = <<>>
       /\ \A c \in CellIds, full \in BOOLEAN :
            Render(c, full) /\ hook \in ReducerKinds
            => /\ bcQ' = bcQ
               /\ \A d \in CellIds \ {c} : state'[d] = state[d]]_vars

\* A built reducer cell has an open channel and a message published by the
\* dispatch of a sibling is in flight to it.
C15_Witness ==
    \E c, d \in CellIds :
        /\ hook = "built"
        /\ c # d
        /\ channel[c] = "open"
        /\ log # <<>> /\ log[Len(log)].cell = d
        /\ bcQ[c] # <<>>
        /\ bcQ[c][Len(bcQ[c])] = [key |-> key[d], value |-> log[Len(log)].val]

\* --------------------------------------------------------------- C16
\* The commits on key k that reached the store, oldest first.
StoredOn(k) == SelectSeq(log, LAMBDA e : e.key = k /\ e.stored)

\* C16: a cell created for a key on which a commit was stored starts with
\* the value of the last such commit, whatever became of the cell that made
\* it; a cell created for a key without entry starts with the initial value.
C16_PersistedValueOutlivesCells ==
    [][\A c \in CellIds, x \in Contexts, k \in Keys :
          Create(c, x, k)
          => /\ StoredOn(k) # <<>>
                => /\ state'[c] = StoredOn(k)[Len(StoredOn(k))].val
                   /\ phase'[c] = "rendered" /\ ~fault'[c]
             /\ store[k] = Absent
                => state'[c] = InitialValue /\ phase'[c] = "rendered"]_vars

\* A cell that wrote and received nothing holds the value committed by a
\* cell that is unmounted by now.
C16_Witness ==
    \E c, d \in CellIds :
        /\ phase[c] = "rendered" /\ phase[d] = "unmounted"
        /\ StoredOn(key[c]) # <<>>
        /\ \A i \in 1..Len(log) : log[i].cell = d
        /\ state[c] = StoredOn(key[c])[Len(StoredOn(key[c]))].val
        /\ state[c] \notin {InitialValue, StoredValue}
        /\ pending[c] = <<>>

\* --------------------------------------------------------------- C17
\* C17: the first render of a cell and its effect leave every store entry as
\* it was, whether the entry is absent, decodable or not, and queue no
\* message and no storage event; no commit is recorded.
C17_CreationNeverWrites ==
    [][/\ \A c \in CellIds, x \in Contexts, k \in Keys :
            Create(c, x, k)
            => UNCHANGED <<store, bcQ, storageQ, log>>
       /\ \A c \in CellIds :
            Subscribe(c) => UNCHANGED <<store, bcQ, storageQ, log>>]_vars

\* Cells were created over an absent entry and over an undecodable one,
\* both started with the initial value, and neither entry has changed.
C17_Witness ==
    \E c, d \in CellIds :
        /\ phase[c] = "live" /\ phase[d] = "live"
        /\ key[c] = "b" /\ store["b"] = Absent
        /\ key[d] = "a" /\ store["a"] = Entry(CorruptText)
        /\ state[c] = InitialValue /\ state[d] = InitialValue
        /\ log = <<>> /\ writes = 0
        /\ \A e \in CellIds : bcQ[e] = <<>>

\* --------------------------------------------------------------- C18
\* What the reducer of the tests returns, as a table.
Transition(s, a) == IF a = "increment" THEN s + 1 ELSE s - 1

\* C18: the state a lone dispatch commits, in memory and, the store
\* accepting, in the store, is given by the state before it and the action
\* alone: increment adds one and decrement takes one, whatever the rest of
\* the system holds; when setItem throws and is caught the state in memory
\* is the same.
C18_ReducerDeterminism ==
    [][\A c \in CellIds, full \in BOOLEAN :
          /\ Render(c, full)
          /\ hook \in ReducerKinds
          /\ Len(pending[c]) = 1 /\ AllLocal(pending[c])
          /\ ~fault'[c]
          => /\ state'[c] = Transition(state[c], pending[c][1].act)
             /\ ~full =>
                  store'[key[c]] =
                      Entry(JSONStringify(Transition(state[c], pending[c][1].act)))
      ]_vars

\* A reducer cell has committed increment from 0 and then decrement from
\* 1: it holds 0 and so does the store.
C18_Witness ==
    \E c \in CellIds :
        /\ hook = "reducer"
        /\ Len(log) = 2
        /\ log[1] = [cell |-> c, key |-> key[c], val |-> 1, stored |-> TRUE]
        /\ log[2] = [cell |-> c, key |-> key[c], val |-> 0, stored |-> TRUE]
        /\ state[c] = 0
        /\ store[key[c]] = Entry(<<"0">>)

\* --------------------------------------------------------------- C19
\* The entry is absent or holds a text that JSON.parse accepts.
ValidEntry(e) == ~e.present \/ JSONParse(e.text).ok

\* C19: no step of the hooks turns an absent or validly encoded entry into
\* an invalid one, and an entry that changes becomes the encoding of a value
\* a mutate or dispatch committed on its key.
C19_StoreValidity ==
    [][\A k \in Keys :
          /\ ValidEntry(store[k]) => ValidEntry(store'[k])
          /\ store'[k] # store[k]
             => \E i \in 1..Len(log') :
                   /\ log'[i].key = k /\ log'[i].stored
                   /\ store'[k] = Entry(JSONStringify(log'[i].val))]_vars

\* The entry of key "b", absent at the start, holds the encoding of the
\* second commit of a cell whose first write was rejected and which is
\* unmounted by now.
C19_Witness ==
    \E c \in CellIds :
        /\ key[c] = "b" /\ phase[c] = "unmounted"
        /\ Len(log) = 2
        /\ log[1].cell = c /\ ~log[1].stored
        /\ log[2].cell = c /\ log[2].stored
        /\ store["b"] = Entry(JSONStringify(log[2].val))
        /\ ValidEntry(store["b"])

\* --------------------------------------------------------------- C20
\* C20: the handlers of a broadcast message and of a storage event, and the
\* render of the values they queued, change the store, the commit history
\* and the queues of other cells in nothing; the render sets the value of
\* the receiving cell alone, to the value received last.
C20_RemoteApplicationNoOutwardEffect ==
    [][/\ \A c \in CellIds :
            DeliverBroadcast(c)
            => /\ UNCHANGED <<store, storageQ, log, state>>
               /\ \A d \in CellIds \ {c} : bcQ'[d] = bcQ[d]
       /\ \A x \in Contexts :
            DeliverStorage(x) => UNCHANGED <<store, bcQ, log, state>>
       /\ \A c \in CellIds, full \in BOOLEAN :
            Render(c, full) /\ AllRemote(pending[c])
            => /\ UNCHANGED <<store, bcQ, storageQ, log>>
               /\ state'[c] = pending[c][Len(pending[c])].arg
               /\ \A d \in CellIds \ {c} : state'[d] = state[d]]_vars

\* A cell that wrote nothing has applied the one value committed so far:
\* the history holds that commit alone, the store its encoding, and nothing
\* is in flight.
C20_Witness ==
    \E c \in CellIds :
        /\ phase[c] = "live"
        /\ Len(log) = 1 /\ log[1].cell # c /\ log[1].stored
        /\ state[c] = log[1].val
        /\ state[c] \notin {InitialValue, StoredValue}
        /\ store[key[c]] = Entry(JSONStringify(state[c]))
        /\ Quiescent

\* --------------------------------------------------------------- C21
\* The values a sibling has still to apply: those of the messages in flight
\* to cell d and of the received values queued for its next render.
Incoming(d) ==
    {[key |-> bcQ[d][i].key, value |-> bcQ[d][i].value] : i \in 1..Len(bcQ[d])}
        \cup {[key |-> key[d], value |-> pending[d][i].arg] :
                 i \in {j \in 1..Len(pending[d]) : pending[d][j].op = "remote"}}

\* The store holds the encoding of the j-th stored commit on k or of a later
\* one.
HeldSince(k, j) ==
    \E n \in j..Len(StoredOn(k)) :
        store[k] = Entry(JSONStringify(StoredOn(k)[n].val))

C22_UnconditionalLastWriteWins ==
    [][/\ \A c \in CellIds :
            /\ DeliverBroadcast(c)
            /\ channel[c] = "open" /\ Head(bcQ[c]).key = key[c]
            => pending'[c] = Append(pending[c], Remote(Head(bcQ[c]).value))
       /\ \A x \in Contexts, c \in CellIds :
            /\ DeliverStorage(x)
            /\ ctx[c] = x /\ Listening(c)
            /\ Head(storageQ[x]).key = key[c]
            /\ Truthy(Head(storageQ[x]).newValue)
            /\ JSONParse(Head(storageQ[x]).newValue.text).ok
            => pending'[c] =
                   Append(pending[c],
                          Remote(JSONParse(Head(storageQ[x]).newValue.text).val))
       /\ \A c \in CellIds, full \in BOOLEAN :
            /\ Render(c, full)
            /\ pending[c][Len(pending[c])].op = "remote"
            /\ ~fault'[c]
            => state'[c] = pending[c][Len(pending[c])].arg]_vars

\* A value cell made the latest commit and then applied the older commit of
\* a sibling: it holds the older value.
C22_Witness ==
    \E c \in CellIds :
        /\ hook = "value" /\ phase[c] = "live"
        /\ Len(log) = 2
        /\ log[1].cell # c /\ log[2].cell = c
        /\ log[1].val < log[2].val
        /\ state[c] = log[1].val
        /\ pending[c] = <<>>

\* --------------------------------------------------------------- C23
\* The storage events a stored commit of value v on key k by a cell of tab
\* x adds for tab y.
Notified(x, y, k, v) ==
    IF y # x /\ Open(y) /\ store[k] # Entry(JSONStringify(v))
    THEN <<[key |-> k, newValue |-> Entry(JSONStringify(v))]>>
    ELSE <<>>

C24_TeardownKeepsIssuedCommit ==
    [][\A c \in CellIds :
          Unmount(c)
          => \A i \in 2..Len(pending[c]) : pending[c][i].op # "local"]_vars

\* --------------------------------------------------------------- C25
\* C25: with two live reducer cells of one key in the same tab, once a
\* dispatch through one of them is committed and stored and nothing is left
\* in flight or queued, the other holds the committed state.
C25_ReducersSharingAContext ==
    \A a, b \in CellIds :
        /\ hook \in ReducerKinds
        /\ Len(log) = 1 /\ log[1].cell = a /\ log[1].stored
        /\ b # a /\ key[b] = key[a] /\ ctx[b] = ctx[a]
        /\ phase[a] = "live" /\ phase[b] = "live"
        /\ Quiescent
        => state[b] = log[1].val

\* Two live reducer cells of src/useCrossTabReducer.ts share a tab and a
\* key; one has committed an increment, nothing is in flight, and the other
\* still holds the state it started with.
C25_Witness ==
    \E a, b \in CellIds :
        /\ hook = "terse"
        /\ b # a /\ key[b] = key[a] /\ ctx[b] = ctx[a]
        /\ phase[a] = "live" /\ phase[b] = "live"
        /\ log = <<[cell |-> a, key |-> key[a], val |-> state[b] + 1,
                    stored |-> TRUE]>>
        /\ state[a] = state[b] + 1
        /\ Quiescent

\* --------------------------------------------------------------- C26
\* All commits were made by cell a and stored; b is a live cell of the same
\* key in another tab, and nothing is left in flight or queued.
C26_Case(a, b) ==
    /\ hook \in {"value", "reducer"}
    /\ log # <<>>
    /\ \A i \in 1..Len(log) : log[i].cell = a /\ log[i].stored
    /\ b # a /\ key[b] = key[a] /\ ctx[b] # ctx[a]
    /\ phase[b] = "live"
    /\ Quiescent

\* C26: a cell created while a cell of another tab is writing holds, once
\* everything is delivered and no write follows, the value the store holds.
C26_NoMissedWrite ==
    \A a, b \in CellIds :
        C26_Case(a, b)
        => /\ store[key[b]] = Entry(JSONStringify(state[b]))
           /\ state[b] = log[Len(log)].val

\* A live cell holds the initial value while the store holds the value a
\* cell of another tab committed, and nothing is in flight.
C26_Witness ==
    \E a, b \in CellIds :
        /\ C26_Case(a, b)
        /\ hook = "value"
        /\ channel[b] = "open"
        /\ state[b] = InitialValue
        /\ store[key[b]] = Entry(JSONStringify(log[Len(log)].val))
        /\ log[Len(log)].val # InitialValue
        /\ state[a] = log[Len(log)].val

\* --------------------------------------------------------------- C27
\* C27: in every reachable state the value a created cell holds, and every
\* value queued for it, is its initialValue, the value decoded from the
\* entry its key had at the start, or a value committed on its key.
C27_ValueProvenance ==
    \A c \in CellIds :
        phase[c] # "absent"
        => /\ state[c] \in OwnValues(c)
           /\ \A i \in 1..Len(pending[c]) :
                  pending[c][i].op = "remote"
                  => pending[c][i].arg \in OwnValues(c)

\* A cell that never committed holds a value another cell committed on its
\* key, which is neither the initial value nor the value stored at the start.
C27_Witness ==
    \E c \in CellIds :
        /\ phase[c] = "live"
        /\ \A i \in 1..Len(log) : log[i].cell # c
        /\ state[c] \notin {InitialValue, StoredValue}
        /\ \E i \in 1..Len(log) : log[i].key = key[c] /\ log[i].val = state[c]

\* --------------------------------------------------------------- C28
\* The browser's event loop: a queued message or storage event is eventually
\* dispatched, and a component with queued updates is eventually rendered.
EventLoop ==
    \/ \E c \in CellIds, full \in BOOLEAN : Render(c, full)
    \/ \E c \in CellIds : DeliverBroadcast(c)
    \/ \E x \in Contexts : DeliverStorage(x)

\* Live cells of the value hook and of the reducer hook that warns.
InitQuiescence == InitLive /\ hook \in {"value", "reducer"}

SpecQuiescence == InitQuiescence /\ [][NextLive]_vars /\ WF_vars(EventLoop)

\* The number of local updates in a queue of updates.
RECURSIVE Locals(_)
Locals(q) ==
    IF q = <<>> THEN 0
    ELSE (IF Head(q).op = "local" THEN 1 ELSE 0) + Locals(Tail(q))

\* The commits a step makes.
Commits == Len(log') - Len(log)

\* C28: every step adds to each channel's queue and to each tab's queue of
\* storage events at most one message per commit it makes, none to the
\* committing cell's own channel or tab; only a render makes commits, at
\* most one per local update it runs, so that a delivery and a render of
\* remote values add no message; and the system comes to rest in a state
\* with nothing in flight.
C28_Quiescence ==
    /\ [][/\ \A d \in CellIds : Len(bcQ'[d]) <= Len(bcQ[d]) + Commits
          /\ \A x \in Contexts : Len(storageQ'[x]) <= Len(storageQ[x]) + Commits
          /\ \A c \in CellIds, full \in BOOLEAN :
                Render(c, full)
                => /\ Commits <= Locals(pending[c])
                   /\ Len(bcQ'[c]) <= Len(bcQ[c])
                   /\ Len(storageQ'[ctx[c]]) <= Len(storageQ[ctx[c]])
          /\ (\E c \in CellIds : DeliverBroadcast(c)) => Commits = 0
          /\ (\E x \in Contexts : DeliverStorage(x)) => Commits = 0]_vars
    /\ <>[]Quiescent

\* Two value cells in different tabs are live, MaxWrites commits were made
\* and stored, and nothing is in flight.
C28_Witness ==
    /\ hook = "value"
    /\ \A c \in CellIds : channel[c] = "open"
    /\ \A c \in CellIds : phase[c] = "live"
    /\ \E a, b \in CellIds : ctx[a] # ctx[b] /\ key[a] = key[b]
    /\ writes = MaxWrites
    /\ Len(log) = MaxWrites
    /\ \A i \in 1..Len(log) : log[i].stored
    /\ Quiescent

\* --------------------------------------------------------------- C29
\* Cell a is the only writer so far and b is another value cell of its key.
SingleWriter(a, b) ==
    /\ hook = "value"
    /\ b # a /\ key[b] = key[a]
    /\ \A i \in 1..Len(log) : log[i].cell = a

\* This step takes cell b from a later write of the history back to a
\* different, earlier one.
Regresses(b) ==
    \E i, j \in 1..Len(log) :
        /\ i < j
        /\ log[i].val # log[j].val
        /\ state[b] = log[j].val
        /\ state'[b] = log[i].val

\* C29 as stated: with a single writer, no sibling value cell, in whatever
\* tab, ever goes back from a later write to an earlier one.
C29_NoRegression ==
    [][\A a, b \in CellIds : SingleWriter(a, b) => ~Regresses(b)]_vars

\* C29: with a single writer, a sibling value cell in the writer's own tab,
\* which hears the broadcast only, never goes back from a later write to an
\* earlier one; a sibling in another tab holds the last write once nothing
\* is in flight, provided every write was stored.
C29_NoRegressionSameTab ==
    /\ [][\A a, b \in CellIds :
             SingleWriter(a, b) /\ ctx[b] = ctx[a] => ~Regresses(b)]_vars
    /\ [](\A a, b \in CellIds :
             /\ SingleWriter(a, b) /\ ctx[b] # ctx[a]
             /\ log # <<>> /\ \A i \in 1..Len(log) : log[i].stored
             /\ phase[b] = "live" /\ Quiescent
             => state[b] = log[Len(log)].val)

\* A sibling in the writer's tab holds the second of two different writes
\* of the single writer, and nothing is in flight.
C29_Witness ==
    \E a, b \in CellIds :
        /\ SingleWriter(a, b) /\ ctx[b] = ctx[a]
        /\ phase[a] = "live" /\ phase[b] = "live"
        /\ Len(log) = 2 /\ log[1].val # log[2].val
        /\ state[b] = log[2].val /\ state[a] = log[2].val
        /\ Quiescent

\* --------------------------------------------------------------- C30
\* Other code of the origin, running in context x, removes the entry of key
\* k (localStorage.removeItem): every other open window gets a "storage"
\* event for k whose newValue is null.
ForeignRemove(x, k) ==
    /\ writes < MaxWrites
    /\ store[k] # Absent
    /\ store' = [store EXCEPT ![k] = Absent]
    /\ storageQ' = [y \in Contexts |->
                       IF y = x \/ ~Open(y) THEN storageQ[y]
                       ELSE Append(storageQ[y], [key |-> k, newValue |-> Absent])]
    /\ writes' = writes + 1
    /\ UNCHANGED <<bcSupported, hook, phase, ctx, key, state, pending,
                   channel, bcQ, warned, fault, log>>

NextRemoval ==
    \/ NextLive
    \/ \E x \in Contexts, k \in Keys : ForeignRemove(x, k)

\* The running application beside other code that removes entries.
SpecRemoval == InitLive /\ [][NextRemoval]_vars

\* C30: the dispatch of a storage event that carries no new value queues no
\* update for any cell, whatever its key and hook, changes no cell's value,
\* and raises neither a warning nor a fault.
C30_RemovalLeavesValue ==
    [][\A x \in Contexts :
          DeliverStorage(x) /\ Head(storageQ[x]).newValue = Absent
          => /\ pending' = pending
             /\ state' = state
             /\ fault' = fault
             /\ warned' = warned
             /\ phase' = phase]_vars

\* The entry of key "a" was removed by other code and the event delivered:
\* two live cells of "a" in different tabs still hold the value they decoded
\* at creation, not the initial value, with nothing queued and no fault.
C30_Witness ==
    /\ \A c \in CellIds :
          /\ phase[c] = "live" /\ key[c] = "a"
          /\ state[c] = StoredValue /\ ~fault[c]
    /\ \E c, d \in CellIds : ctx[c] # ctx[d]
    /\ store["a"] = Absent
    /\ writes = 1 /\ log = <<>>
    /\ Quiescent
====
